---- MODULE Spec2Model ----
(***************************************************************************)
(* Model of gui::Plotter (src/graphics/ui/elements/Plotter.cpp) and of the *)
(* shutdown path and hotkeys of LevelScreen                                *)
(* (src/frontend/screens/LevelScreen.cpp).                                 *)
(***************************************************************************)
EXTENDS Integers, Sequences, FiniteSets

\* ------------------------------------------------------------------ bounds

\* largest plot width (dmwidth) the constructor is given
MaxWidth == 2
\* largest number of Plotter::act calls in a run
MaxTicks == 3
\* largest number of consecutive Plotter::draw calls between two act calls
MaxDraws == 2
\* largest number of LevelScreen::update calls before the screen is destroyed
MaxUpdates == 2

\* ------------------------------------------------------- C++ int and float

\* INT_MIN and INT_MAX of the 32-bit int that `value`, `index` and the
\* elements of `points` have
IntMax == 2147483647
IntMin == -2147483647 - 1

\* C++ integer division truncates towards zero (b > 0)
TruncDiv(a, b) == IF a >= 0 THEN a \div b ELSE (a + b - 1) \div b

\* std::min
Min(a, b) == IF b < a THEN b ELSE a

\* A float delta is the rational num/den; den = 0 is +infinity.  All finite
\* deltas used are small dyadic rationals, which float arithmetic represents
\* and multiplies exactly.
Deltas ==
    { [num |-> -6, den |-> 4], [num |-> -1, den |-> 4], [num |-> 30, den |-> 4],
      [num |-> 66, den |-> 4], [num |-> 128, den |-> 4], [num |-> 200, den |-> 4],
      [num |-> 1, den |-> 0] }

\* delta * multiplier > h, as a comparison of reals
ScaledExceeds(delta, mult, h) ==
    IF delta.den = 0 THEN TRUE ELSE delta.num * mult > h * delta.den

\* delta * multiplier < 0
ScaledNegative(delta, mult) == delta.den # 0 /\ delta.num * mult < 0

\* static_cast<int>(delta * multiplier): truncation towards zero when the
\* product is in the range of int; otherwise the conversion is undefined and
\* the builds in use produce INT_MIN (x86 cvttss2si), INT_MAX (saturating
\* conversion) or 0.
CastToInt(delta, mult) ==
    IF delta.den # 0
    THEN {TruncDiv(delta.num * mult, delta.den)}
    ELSE {IntMin, IntMax, 0}

\* ---------------------------------------------------------------- Plotter

VARIABLES
    points,          \* int[dmwidth], slots 0 .. dmwidth-1
    index,           \* the write cursor
    dmwidth,         \* plot width W
    dmheight,        \* plot height H
    multiplier,      \* scale factor
    labelsInterval,  \* pixels between axis labels
    hist,            \* the magnitudes computed by the act calls so far, in order
    lastDelta,       \* the argument of the last act call
    draws,           \* number of draw calls since the last act call
    frame            \* the draw commands issued by the last draw call

VARIABLES
    lsPc,            \* position of the LevelScreen: running, or a step of ~LevelScreen
    lsThrowAt,       \* the step of saveWorldPreview that throws ("none" if none)
    lsLog,           \* the calls made by ~LevelScreen so far, in order
    hudVisible,      \* LevelScreen::hudVisible
    frustumCulling,  \* settings.graphics.frustumCulling
    playerDebug,     \* controller->getPlayer()->debug
    chunksCleared,   \* chunks->saveAndClear() has been called
    channelsPaused,  \* setPaused state of the "regular" and "ambient" channels
    updates          \* number of update calls so far

plotterVars == <<points, index, dmwidth, dmheight, multiplier, labelsInterval,
                 hist, lastDelta, draws, frame>>
screenVars == <<lsPc, lsThrowAt, lsLog, hudVisible, frustumCulling, playerDebug,
                chunksCleared, channelsPaused, updates>>
vars == <<plotterVars, screenVars>>

Widths == 1..MaxWidth
Heights == {32, 40}
Intervals == {8, 16}
Multipliers == {1, 2}

\* height step of the gridlines, and the divisor of current_point in the
\* highlight test
GridStep == 16

NoFrame == [bars |-> <<>>, grid |-> <<>>, labels |-> <<>>]

\* Plotter::Plotter: the buffer is value-initialised, the cursor starts at 0
PlotterInit ==
    /\ dmwidth \in Widths
    /\ dmheight \in Heights
    /\ labelsInterval \in Intervals
    /\ multiplier \in Multipliers
    /\ points = [s \in 0..(dmwidth - 1) |-> 0]
    /\ index = 0
    /\ hist = <<>>
    /\ lastDelta = [num |-> 0, den |-> 1]
    /\ draws = 0
    /\ frame = NoFrame

\* index = index + 1 % dmwidth;   (% binds tighter than +)
NextIndexNoStep(idx, w) == idx
NextIndex(idx, w) == idx + (1 % w)

\* the slot of the cursor: index % dmwidth
SlotOffByOne(idx, w) == (idx + 1) % w
Slot(idx, w) == idx % w

\* std::min(value, dmheight)
ClampNone(value, h) == value
Clamp(value, h) == Min(value, h)

\* points[slot] = v
StorePointAndClearNext(pts, slot, w, v) ==
    [pts EXCEPT ![slot] = v, ![(slot + 1) % w] = 0]
StorePoint(pts, slot, w, v) == [pts EXCEPT ![slot] = v]

\* Plotter::act(delta)
act(delta) ==
    /\ Len(hist) < MaxTicks
    /\ \E value \in CastToInt(delta, multiplier) :
         LET idx == NextIndex(index, dmwidth)
             m == Clamp(value, dmheight)
         IN /\ index' = idx
            /\ points' = StorePoint(points, Slot(idx, dmwidth), dmwidth, m)
            /\ hist' = Append(hist, m)
    /\ lastDelta' = delta
    /\ draws' = 0
    /\ UNCHANGED <<dmwidth, dmheight, multiplier, labelsInterval, frame>>
    /\ UNCHANGED screenVars

\* for (int i = index+1; i < index+dmwidth; i++): one bar per i, at column
\* i - index, of height points[i % dmwidth]
BarsFromCursor(pts, idx, w) ==
    [k \in 1..w |-> LET i == idx + k - 1 IN [x |-> i - idx + 1, h |-> pts[i % w]]]
Bars(pts, idx, w) ==
    [k \in 1..(w - 1) |-> LET i == idx + k IN [x |-> i - idx, h |-> pts[i % w]]]

\* for (int y = 0; y < dmheight; y += 16)
GridLines(h) ==
    [r \in 1..((h + GridStep - 1) \div GridStep) |-> (r - 1) * GridStep]

\* for (int y = 0; y < dmheight; y += labelsInterval): the row is highlighted
\* when current_point/16 == y/labelsInterval and then shows
\* current_point / multiplier, else y / multiplier
Labels(cp, h, l, mult) ==
    [r \in 1..((h + l - 1) \div l) |->
        LET y == (r - 1) * l
            hl == TruncDiv(cp, GridStep) = TruncDiv(y, l)
        IN [y |-> y, highlighted |-> hl,
            value |-> IF hl THEN <<cp, mult>> ELSE <<y, mult>>]]

\* the cursor after Plotter::draw
DrawIndexAdvanced(idx) == idx + 1
DrawIndex(idx) == idx

\* Plotter::draw
draw ==
    /\ draws < MaxDraws
    /\ frame' = [bars |-> Bars(points, index, dmwidth),
                 grid |-> GridLines(dmheight),
                 labels |-> Labels(points[Slot(index, dmwidth)], dmheight,
                                   labelsInterval, multiplier)]
    /\ draws' = draws + 1
    /\ index' = DrawIndex(index)
    /\ UNCHANGED <<points, dmwidth, dmheight, multiplier, labelsInterval, hist,
                   lastDelta>>
    /\ UNCHANGED screenVars

\* ------------------------------------------------------------ LevelScreen

\* keycode::O, F1, F3, F5
Keys == {"O", "F1", "F3", "F5"}

\* the statements of the try block of saveWorldPreview that call into
\* collaborators, in order
PreviewSteps == <<"worldRenderer->draw", "toImage", "flipY", "imageio::write">>
ThrowPoints == {"none"} \cup {PreviewSteps[k] : k \in DOMAIN PreviewSteps}

\* LevelScreen::LevelScreen: the screen starts running with the HUD shown;
\* the two settings flags start at their defaults (every other combination
\* is one update call away)
ScreenInit ==
    /\ lsPc = "running"
    /\ lsThrowAt = "none"
    /\ lsLog = <<>>
    /\ hudVisible = TRUE
    /\ frustumCulling = TRUE
    /\ playerDebug = FALSE
    /\ chunksCleared = FALSE
    /\ channelsPaused = FALSE
    /\ updates = 0

\* LevelScreen::updateHotkeys, with `pressed` the keys Events::jpressed reports
updateHotkeys(pressed) ==
    /\ frustumCulling' = IF "O" \in pressed THEN ~frustumCulling ELSE frustumCulling
    /\ hudVisible' = IF "F1" \in pressed THEN ~hudVisible ELSE hudVisible
    /\ playerDebug' = IF "F3" \in pressed THEN ~playerDebug ELSE playerDebug
    /\ chunksCleared' = (chunksCleared \/ "F5" \in pressed)

\* LevelScreen::update(delta)
update(pressed, focusCaught, paused) ==
    /\ lsPc = "running"
    /\ updates < MaxUpdates
    /\ IF ~focusCaught
       THEN updateHotkeys(pressed)
       ELSE UNCHANGED <<frustumCulling, hudVisible, playerDebug, chunksCleared>>
    /\ channelsPaused' = paused
    /\ updates' = updates + 1
    /\ UNCHANGED <<lsPc, lsThrowAt, lsLog>>
    /\ UNCHANGED plotterVars

\* the calls of the try block made before control leaves it, when the step
\* throwAt throws a std::exception ("none": no step throws)
RECURSIVE PreviewCalls(_, _)
PreviewCalls(k, throwAt) ==
    IF k > Len(PreviewSteps) THEN <<>>
    ELSE IF PreviewSteps[k] = throwAt THEN <<PreviewSteps[k]>>
    ELSE <<PreviewSteps[k]>> \o PreviewCalls(k + 1, throwAt)

\* where ~LevelScreen continues after the call of saveWorldPreview: the
\* handler catches every std::exception, so control always returns
AfterPreviewNoCatch(throwAt) ==
    IF throwAt = "none" THEN "on_frontend_close" ELSE "terminated"
AfterPreview(throwAt) == "on_frontend_close"

\* ~LevelScreen, line 64: saveWorldPreview()
saveWorldPreview(throwAt) ==
    /\ lsPc = "running"
    /\ lsThrowAt' = throwAt
    /\ lsLog' = lsLog \o <<"saveWorldPreview", "logger.info">>
                      \o PreviewCalls(1, throwAt)
                      \o (IF throwAt = "none" THEN <<>> ELSE <<"logger.error">>)
    /\ lsPc' = AfterPreview(throwAt)
    /\ UNCHANGED <<hudVisible, frustumCulling, playerDebug, chunksCleared,
                   channelsPaused, updates>>
    /\ UNCHANGED plotterVars

\* the statement after `step` in ~LevelScreen
StepAfter(step) ==
    IF step = "on_frontend_close" THEN "onWorldQuit"
    ELSE IF step = "onWorldQuit" THEN "setWorldFolder"
    ELSE "destroyed"

\* ~LevelScreen, lines 65-67: scripting::on_frontend_close(),
\* controller->onWorldQuit(), setWorldFolder(fs::path())
shutdownStep ==
    /\ lsPc \in {"on_frontend_close", "onWorldQuit", "setWorldFolder"}
    /\ lsLog' = Append(lsLog, lsPc)
    /\ lsPc' = StepAfter(lsPc)
    /\ UNCHANGED <<lsThrowAt, hudVisible, frustumCulling, playerDebug,
                   chunksCleared, channelsPaused, updates>>
    /\ UNCHANGED plotterVars

Init == PlotterInit /\ ScreenInit

Next == (\E delta \in Deltas : act(delta)) \/ draw

Spec == Init /\ [][Next]_vars

NextLevelScreen ==
    \/ \E pressed \in SUBSET Keys, focusCaught \in BOOLEAN, paused \in BOOLEAN :
         update(pressed, focusCaught, paused)
    \/ \E throwAt \in ThrowPoints : saveWorldPreview(throwAt)
    \/ shutdownStep

SpecLevelScreen == Init /\ [][NextLevelScreen]_vars

\* ----------------------------------------------------------------- claims

\* the magnitude under the cursor
CurrentPoint == points[Slot(index, dmwidth)]

Abs(a) == IF a < 0 THEN -a ELSE a

\* C1: after N >= W act calls the buffer holds the magnitudes of the last W
\* calls, and the slots read in circular order from the one after the cursor
\* to the cursor give them oldest first, newest last.
C1_LastWInWrapOrder ==
    Len(hist) >= dmwidth =>
        \A k \in 1..dmwidth :
            points[(index + k) % dmwidth] = hist[Len(hist) - dmwidth + k]

\* more than W calls, all of different magnitudes, with W >= 2: slots were
\* overwritten after a wrap
C1_Witness ==
    /\ dmwidth >= 2
    /\ Len(hist) > dmwidth
    /\ Cardinality({hist[i] : i \in DOMAIN hist}) = Len(hist)

C3_SaturatesAtHeight ==
    (Len(hist) > 0 /\ ScaledExceeds(lastDelta, multiplier, dmheight))
        => CurrentPoint = dmheight

\* C4: when draw directly follows act (W >= 2), the bar at the rightmost
\* plotted column has the height of the magnitude that act just stored.
C4_NewestAtRightmostColumn ==
    (draws = 1 /\ Len(hist) > 0 /\ dmwidth >= 2)
        => frame.bars[Len(frame.bars)].h = hist[Len(hist)]

\* C5: the cursor advances by one modulo W, so 0 <= index < W always, and
\* the slot at index holds the most recently written sample.
C5_CursorWrapsModuloWidth ==
    /\ 0 <= index
    /\ index < dmwidth
    /\ Len(hist) > 0 => points[index] = hist[Len(hist)]

\* C6: draw leaves the buffer and the cursor as they are, and a draw that
\* follows a draw with no act in between issues the same commands.
C6_DrawChangesNoState ==
    [][draws' = draws + 1 =>
          /\ points' = points
          /\ index' = index
          /\ <<dmwidth', dmheight', multiplier', labelsInterval'>>
               = <<dmwidth, dmheight, multiplier, labelsInterval>>
          /\ draws > 0 => frame' = frame]_vars

\* two draw calls in a row after a sample, with bars and labels drawn
C6_Witness ==
    /\ draws = 2
    /\ Len(hist) > 0
    /\ Len(frame.bars) > 0
    /\ Len(frame.labels) > 0

\* C7: every draw highlights exactly one label row, the row nearest to the
\* current magnitude.  Stated for finite samples whose magnitude lies within
\* the plot, 0 .. H, and with "nearest" read generously: less than one label
\* interval away.
C7_OneNearestRowHighlighted ==
    (draws > 0 /\ lastDelta.den # 0 /\ CurrentPoint \in 0..dmheight) =>
        LET rows == DOMAIN frame.labels
            lit == {r \in rows : frame.labels[r].highlighted}
        IN /\ Cardinality(lit) = 1
           /\ \A r \in lit :
                Abs(CurrentPoint - frame.labels[r].y) < labelsInterval

\* C8: act changes the cursor and the one slot at the new cursor position;
\* the other slots, multiplier, W, H and the label interval stay; and it
\* accepts every input.
C8_ActFrame ==
    /\ [](Len(hist) < MaxTicks => \A d \in Deltas : ENABLED act(d))
    /\ [][Len(hist') = Len(hist) + 1 =>
            /\ DOMAIN points' = DOMAIN points
            /\ \A s \in DOMAIN points :
                 s # Slot(index', dmwidth) => points'[s] = points[s]
            /\ points'[Slot(index', dmwidth)] = hist'[Len(hist')]
            /\ <<dmwidth', dmheight', multiplier', labelsInterval'>>
                 = <<dmwidth, dmheight, multiplier, labelsInterval>>]_vars

\* a sample was written while another slot held a non-zero magnitude, which
\* is still there
C8_Witness ==
    /\ dmwidth >= 2
    /\ Len(hist) >= 2
    /\ \E s \in DOMAIN points :
         s # Slot(index, dmwidth) /\ points[s] # 0 /\ points[s] # CurrentPoint

C10_ShutdownOrder ==
    LET n == Len(lsLog)
        tail == <<"on_frontend_close", "onWorldQuit", "setWorldFolder">>
        done == IF lsPc = "running" THEN 0
                ELSE IF lsPc = "on_frontend_close" THEN 0
                ELSE IF lsPc = "onWorldQuit" THEN 1
                ELSE IF lsPc = "setWorldFolder" THEN 2
                ELSE 3
    IN /\ lsPc \in {"running", "on_frontend_close", "onWorldQuit",
                    "setWorldFolder", "destroyed"}
       /\ lsPc # "running" =>
            /\ n >= done + 2
            /\ lsLog[1] = "saveWorldPreview"
            /\ SubSeq(lsLog, n - done + 1, n) = SubSeq(tail, 1, done)
            /\ \A i \in 1..(n - done) : lsLog[i] \notin {tail[1], tail[2], tail[3]}
            /\ lsThrowAt # "none" =>
                 /\ lsLog[n - done] = "logger.error"
                 /\ lsLog[n - done - 1] = lsThrowAt
            /\ lsThrowAt = "none" => lsLog[n - done] = "imageio::write"
       /\ lsPc \in {"on_frontend_close", "onWorldQuit", "setWorldFolder"}
            => ENABLED shutdownStep

\* the screen is destroyed after the file write of the preview threw
C10_Witness ==
    /\ lsPc = "destroyed"
    /\ lsThrowAt = "imageio::write"
    /\ Len(lsLog) = 10

====
